---- MODULE Spec2Model ----
(***************************************************************************)
(* Closed-loop simulation harness (KCutils/simulation.py, class            *)
(* Simulation) driving an economic MPC (KCutils/controller.py, class       *)
(* EconomicMPC).  All vectors are one-dimensional (nx = nu = ny = nyc =    *)
(* nv = nw = nd = 1) and values are integers.  Python arrays of length n   *)
(* are functions on 0..n-1.                                                *)
(***************************************************************************)
EXTENDS Integers, Sequences, FiniteSets, TLC

\* ---------------------------------------------------------------- bounds
Nsim == 2          \* simulation horizon handed to Simulation.__init__
Np == 2            \* prediction horizon prob_info['Np']
MaxRuns == 2       \* run_closed_loop calls in one behaviour
MaxLoads == 1      \* load_prob_info calls in one behaviour
MaxCtrlOps == 2    \* direct controller calls in one behaviour

\* ------------------------------------------------- problem configuration
u_min == -1
u_max == 1
u_init == 0
x_init == 1
y_init == 1
x0 == 1
\* noise parameters a prob_info dict may carry, per channel
v_min_cfg == 0
v_max_cfg == 1
v_mu_cfg == 0
v_sigma_cfg == 1
w_min_cfg == -1
w_max_cfg == 0
w_mu_cfg == 1
w_sigma_cfg == 2

\* An attribute or local that may be unassigned (or None) is <<>> when it is
\* and <<v>> when it holds v.
Unset == <<>>
Some(v) == <<v>>
IsSet(x) == x # <<>>
Val(x) == x[1]

Min(a, b) == IF a <= b THEN a ELSE b
Max(a, b) == IF a >= b THEN a ELSE b
Zeros(n) == [i \in 0..(n - 1) |-> 0]
Size(a) == Cardinality(DOMAIN a)

\* plant and problem functions carried by prob_info
fp(x, u, w) == x + u + w
hp(x, v) == x + v
CEMadd(y) == IF y > 0 THEN y ELSE 0
myref(k) == 2 + k
lstage(x) == x

\* ------------------------------------------------------------ controller
\* EconomicMPC after __init__ and before get_mpc: no opti attribute yet
NoOpti == [built |-> FALSE,
           initial |-> [U |-> <<>>, X |-> <<>>, Y |-> <<>>],
           value |-> [X0 |-> 0, CEMref |-> 0, CEM0 |-> 0],
           constraints |-> {}, objective |-> <<>>]

\* get_mpc: the subject_to calls, Y[0] == h(X[0]) and five per stage (the
\* prob_info has neither 'ustage' nor 'du_max'), and the minimize call
Constraints ==
    {<<"h", 0>>}
      \cup UNION {{<<"u_bounds", j>>, <<"x_bounds", j + 1>>, <<"y_bounds", j + 1>>,
                   <<"f", j + 1>>, <<"h", j + 1>>} : j \in 0..(Np - 1)}
Objective == <<"(J + CEM0 - CEMref)**2", Np>>

\* get_mpc: variable groups opti_vars['U'] (Np), opti_vars['X'] = X[1:] (Np),
\* opti_vars['Y'] (Np+1) with their initial guesses; parameters set to zero
BuildOpti == [built |-> TRUE,
              initial |-> [U |-> [j \in 0..(Np - 1) |-> u_init],
                           X |-> [j \in 0..(Np - 1) |-> x_init],
                           Y |-> [j \in 0..Np |-> y_init]],
              value |-> [X0 |-> 0, CEMref |-> 0, CEM0 |-> 0],
              constraints |-> Constraints, objective |-> Objective]

ResetLoopRangeFromOne == 1..(Np - 1)
\* reset_initial_guesses: Y[0], then for k in range(Np): U[k], X[k], Y[k+1]
ResetLoopRange == 0..(Np - 1)
ResetInitialGuesses(o) ==
    [o EXCEPT !.initial =
        [U |-> [j \in DOMAIN o.initial.U |->
                   IF j \in ResetLoopRange THEN u_init ELSE o.initial.U[j]],
         X |-> [j \in DOMAIN o.initial.X |->
                   IF j \in ResetLoopRange THEN x_init ELSE o.initial.X[j]],
         Y |-> [j \in DOMAIN o.initial.Y |->
                   IF j = 0 \/ (j - 1) \in ResetLoopRange
                       THEN y_init ELSE o.initial.Y[j]]]]

\* set_parameters: reads positions 0, 1, 2 of params_list (a sequence here,
\* position i is element i+1) before it sets any value
ParamsReadable(pl) == Len(pl) >= 3
SetParametersAndReset(o, pl) ==
    [o EXCEPT !.value = [X0 |-> pl[1], CEMref |-> pl[2], CEM0 |-> pl[3]],
              !.initial = BuildOpti.initial]
SetParameters(o, pl) ==
    [o EXCEPT !.value = [X0 |-> pl[1], CEMref |-> pl[2], CEM0 |-> pl[3]]]

\* The NLP solver is an external deterministic function of the parameter
\* values and the initial guesses.  Its answer is a full iterate; the solver
\* either converges (ok) or raises and leaves a last iterate behind.
SumTo(f, n) == LET RECURSIVE S(_)
                   S(i) == IF i < 0 THEN 0 ELSE f[i] + S(i - 1)
               IN S(n)
Iterate(u, p) ==
    LET Xs == [j \in 0..(Np - 1) |-> p.X0 + (j + 1) * u]
        Jc == lstage(p.X0) + SumTo([j \in 0..(Np - 1) |-> lstage(Xs[j])], Np - 1)
                + p.CEM0
    IN [U |-> [j \in 0..(Np - 1) |-> u],
        X |-> Xs,
        Y |-> [j \in 0..Np |-> p.X0 + j * u],
        J |-> (Jc - p.CEMref) * (Jc - p.CEMref)]
SolverAnswers(p) ==
    {[ok |-> TRUE, it |-> Iterate(1, p)]}
      \cup {[ok |-> FALSE, it |-> Iterate(u, p)] : u \in {-2, 3}}

ClampUpperOnly(u) == Min(u, u_max)
Clamp(u) == Max(Min(u, u_max), u_min)
FirstInput(ans) == IF ans.ok THEN ans.it.U[0] ELSE Clamp(ans.it.U[0])
WarmStartFromLastIterate(o, warm, ans) ==
    IF warm THEN [U |-> ans.it.U, X |-> ans.it.X, Y |-> ans.it.Y] ELSE o.initial
\* if warm_start: self.opti.set_initial(sol.value_variables()), in the try block
WarmStartGuess(o, warm, ans) ==
    IF ans.ok /\ warm
        THEN [U |-> ans.it.U, X |-> ans.it.X, Y |-> ans.it.Y]
        ELSE o.initial
\* solve_mpc: (res, feas) and the opti object afterwards.  raised tells
\* whether the solver's exception leaves solve_mpc.
SolveReturn(o, warm, ans, raised) ==
    [res |-> [U |-> FirstInput(ans), Ufull |-> ans.it.U, X |-> ans.it.X,
              Y |-> ans.it.Y, J |-> ans.it.J,
              X0 |-> o.value.X0, CEMref |-> o.value.CEMref, CEM0 |-> o.value.CEM0],
     feas |-> ans.ok,
     raised |-> raised,
     opti |-> [o EXCEPT !.initial = WarmStartGuess(o, warm, ans)]]
SolveMpcNoExcept(o, warm, ans) == SolveReturn(o, warm, ans, ~ans.ok)
\* try: opti.solve() ... except Exception: every failure is absorbed
SolveMpc(o, warm, ans) == SolveReturn(o, warm, ans, FALSE)

\* ------------------------------------------------------------ simulation
NoiseKeys == {"none", "uniform", "normal"}   \* which keys prob_info carries
NaN == -999                                  \* np.nan as an objective value

\* Simulation.__init__: prob_info and rand_seed are None, nothing else is set
NewAttr == [v_noise_generation |-> Unset, w_noise_generation |-> Unset,
            v_min |-> Unset, v_max |-> Unset, v_mu |-> Unset, v_sigma |-> Unset,
            w_min |-> Unset, w_max |-> Unset, w_mu |-> Unset, w_sigma |-> Unset,
            rand_seed |-> Unset]

\* load_prob_info, measurement-noise block (if / elif / else)
LoadV(a, vk) ==
    IF vk = "normal"
        THEN [a EXCEPT !.v_mu = Some(v_mu_cfg), !.v_sigma = Some(v_sigma_cfg),
                       !.v_noise_generation = Some("normal")]
    ELSE IF vk = "uniform"
        THEN [a EXCEPT !.v_min = Some(v_min_cfg), !.v_max = Some(v_max_cfg),
                       !.v_noise_generation = Some("uniform")]
    ELSE [a EXCEPT !.v_min = Some(0), !.v_max = Some(0),
              !.v_noise_generation = Some("uniform")]

\* load_prob_info, process-noise block: the normal branch assigns the
\* attributes self.v_mu, self.v_sigma and self.v_noise_generation
LoadW(a, wk) ==
    IF wk = "normal"
        THEN [a EXCEPT !.v_mu = Some(w_mu_cfg), !.v_sigma = Some(w_sigma_cfg),
                       !.v_noise_generation = Some("normal")]
    ELSE IF wk = "uniform"
        THEN [a EXCEPT !.w_min = Some(w_min_cfg), !.w_max = Some(w_max_cfg),
                       !.w_noise_generation = Some("uniform")]
    ELSE [a EXCEPT !.w_min = Some(0), !.w_max = Some(0),
              !.w_noise_generation = Some("uniform")]

LoadAttr(a, vk, wk, seed) == [LoadW(LoadV(a, vk), wk) EXCEPT !.rand_seed = seed]

\* numpy Generator: the i-th raw draw of the stream seeded with seed
Raw(seed, i) == (5 * seed + i * i + 3 * i + 1) % 7
Uniform(raw, lo, hi) == lo + (raw % (hi - lo + 1))
Normal(raw, mu, sigma) == mu + sigma * ((raw % 3) - 1)
\* default_rng() without a seed takes fresh entropy: a seed no other call has
Entropy(call) == 3 + call
RngSeedUnseeded(rand_seed, rand_seed2, call) == Entropy(call)
RngSeed(rand_seed, rand_seed2, call) ==
    IF IsSet(rand_seed) THEN Val(rand_seed) + rand_seed2 ELSE Entropy(call)

\* Vsim is drawn first (Nsim+1 draws), Wsim from the draws that follow.
\* ...Mode is the branch the if / elif / else takes; reading an attribute
\* that was never assigned raises AttributeError.
NoiseMode(gen) == IF gen = Some("uniform") THEN "uniform"
                  ELSE IF gen = Some("normal") THEN "normal"
                  ELSE IF IsSet(gen) THEN "unknown" ELSE "AttributeError"
VsimOk(a) ==
    \/ NoiseMode(a.v_noise_generation) = "uniform" /\ IsSet(a.v_min) /\ IsSet(a.v_max)
    \/ NoiseMode(a.v_noise_generation) = "normal" /\ IsSet(a.v_mu) /\ IsSet(a.v_sigma)
DrawVsim(a, seed) ==
    IF NoiseMode(a.v_noise_generation) = "uniform"
        THEN [i \in 0..Nsim |-> Uniform(Raw(seed, i), Val(a.v_min), Val(a.v_max))]
        ELSE [i \in 0..Nsim |-> Normal(Raw(seed, i), Val(a.v_mu), Val(a.v_sigma))]
WsimOk(a) ==
    \/ NoiseMode(a.w_noise_generation) = "uniform" /\ IsSet(a.w_min) /\ IsSet(a.w_max)
    \/ NoiseMode(a.w_noise_generation) = "normal" /\ IsSet(a.w_mu) /\ IsSet(a.w_sigma)
DrawWsim(a, seed) ==
    IF NoiseMode(a.w_noise_generation) = "uniform"
        THEN [i \in 0..(Nsim - 1) |->
                 Uniform(Raw(seed, Nsim + 1 + i), Val(a.w_min), Val(a.w_max))]
        ELSE [i \in 0..Nsim |->
                 Normal(Raw(seed, Nsim + 1 + i), Val(a.w_mu), Val(a.w_sigma))]

\* collaborators that are not part of the two source files
ObserverUpdate(u, y) == [xhat |-> y, dhat |-> 1]
NetOut(in_vec) == ((in_vec[1] + in_vec[2]) % 4) - 1

\* the list run_closed_loop hands to set_parameters at step k
ParamsList(cem, offset, multistage, xhat, yref, cemk, dhat) ==
    IF cem
        THEN IF multistage THEN <<xhat, yref, cemk, "Wset">>
                           ELSE <<xhat, yref, cemk>>
        ELSE IF offset THEN <<xhat, yref, dhat>>
                       ELSE <<xhat, yref>>

Controllers == {"mpc", "dnn", "other"}
RunArgs == [c : Controllers, observer : BOOLEAN, offset : BOOLEAN,
            CEM : BOOLEAN, multistage : BOOLEAN, rand_seed2 : {0, 1}]

\* ----------------------------------------------------------------- state
VARIABLES
    experiment,   \* entries of the prob_info dict: warm_start, rand_seed
    prob_info,    \* Simulation.prob_info: Unset (None) or the loaded noise keys
    attr,         \* the other attributes of the Simulation object
    opti,         \* the controller's Opti problem: initial guesses, parameter values
    oracle,       \* the answers the (deterministic) solver has given so far
    pc,           \* position inside run_closed_loop, "idle" outside it
    args,         \* arguments of the current (or last) run_closed_loop call
    k,            \* loop variable
    Vsim, Wsim, Xsim, Ysim, Usim, Xhat, Dhat, Jsim, ctime, Feas, Yrefsim,
    CEMsim, CEM_stop_time, CEM_stop_trigger,
    res, feas,    \* what solve_mpc returned at this step
    Uopt, Jopt,   \* the input and objective value of this step
    outcome,      \* how the last call ended: "none", "returned" or the error
    sim_data,     \* the trace the last completed run returned, with its inputs
    prev_data,    \* the trace the completed run before that returned
    log,          \* the operations of the current (or last) run, in order
    lastOp,       \* the last controller operation and the opti object before it
    nRuns, nLoads, nCtrlOps

config == <<experiment, prob_info, attr>>
arrays == <<Vsim, Wsim, Xsim, Ysim, Usim, Xhat, Dhat, Jsim, ctime, Feas, Yrefsim,
            CEMsim, CEM_stop_time, CEM_stop_trigger>>
locals == <<k, arrays, res, feas, Uopt, Jopt>>
ctl == <<opti, oracle, lastOp>>
returned == <<sim_data, prev_data>>
counts == <<nRuns, nLoads, nCtrlOps>>
vars == <<config, ctl, pc, args, locals, outcome, returned, log, counts>>

NoArgs == [c |-> "other", observer |-> FALSE, offset |-> FALSE, CEM |-> FALSE,
           multistage |-> FALSE, rand_seed2 |-> 0]
NoRes == [U |-> 0, J |-> 0]
ClearLocals ==
    /\ k' = 0
    /\ Vsim' = <<>> /\ Wsim' = <<>> /\ Xsim' = <<>> /\ Ysim' = <<>>
    /\ Usim' = <<>> /\ Xhat' = <<>> /\ Dhat' = <<>> /\ Jsim' = <<>>
    /\ ctime' = <<>> /\ Feas' = <<>> /\ Yrefsim' = <<>> /\ CEMsim' = <<>>
    /\ CEM_stop_time' = Unset /\ CEM_stop_trigger' = FALSE
    /\ res' = NoRes /\ feas' = Unset /\ Uopt' = 0 /\ Jopt' = 0

Ev(op, step) == [op |-> op, k |-> step]
NoOp == [op |-> "none", before |-> NoOpti]

Init ==
    /\ experiment \in [warm_start : BOOLEAN, rand_seed : {Unset, Some(1)}]
    /\ prob_info = Unset
    /\ attr = NewAttr
    /\ opti = NoOpti
    /\ oracle = <<>>
    /\ pc = "idle"
    /\ args = NoArgs
    /\ k = 0
    /\ Vsim = <<>> /\ Wsim = <<>> /\ Xsim = <<>> /\ Ysim = <<>>
    /\ Usim = <<>> /\ Xhat = <<>> /\ Dhat = <<>> /\ Jsim = <<>>
    /\ ctime = <<>> /\ Feas = <<>> /\ Yrefsim = <<>> /\ CEMsim = <<>>
    /\ CEM_stop_time = Unset /\ CEM_stop_trigger = FALSE
    /\ res = NoRes /\ feas = Unset /\ Uopt = 0 /\ Jopt = 0
    /\ outcome = "none"
    /\ sim_data = Unset /\ prev_data = Unset
    /\ log = <<>>
    /\ lastOp = NoOp
    /\ nRuns = 0 /\ nLoads = 0 /\ nCtrlOps = 0

\* an exception leaves the call: the frame's locals are gone, nothing is returned
Raise(kind) ==
    /\ pc' = "idle"
    /\ outcome' = kind
    /\ ClearLocals

\* ------------------------------------------------- controller, called directly
\* The solver answers the same question the same way every time.
Ask(key, ans) ==
    IF key \in DOMAIN oracle
        THEN ans = oracle[key] /\ UNCHANGED oracle
        ELSE oracle' = (key :> ans) @@ oracle
SolverKey(o) == <<o.value, o.initial>>

DirectUse == pc = "idle" /\ nLoads = 0 /\ nRuns = 0 /\ nCtrlOps < MaxCtrlOps
DirectFrame == UNCHANGED <<config, pc, args, locals, outcome, returned, log,
                           nRuns, nLoads>>

GetMpc ==
    /\ pc = "idle" /\ ~opti.built /\ nLoads = 0 /\ nRuns = 0 /\ nCtrlOps = 0
    /\ opti' = BuildOpti
    /\ lastOp' = [op |-> "get_mpc", before |-> opti]
    /\ UNCHANGED <<oracle, nCtrlOps>>
    /\ DirectFrame

CtrlReset ==
    /\ DirectUse /\ opti.built
    /\ opti' = ResetInitialGuesses(opti)
    /\ lastOp' = [op |-> "reset_initial_guesses", before |-> opti]
    /\ nCtrlOps' = nCtrlOps + 1
    /\ UNCHANGED oracle
    /\ DirectFrame

DirectParams == {<<1, 3, 0>>, <<2, 4, 1>>, <<1, 3>>}
CtrlSetParameters ==
    /\ DirectUse /\ opti.built
    /\ \E pl \in DirectParams :
         /\ opti' = IF ParamsReadable(pl) THEN SetParameters(opti, pl) ELSE opti
         /\ lastOp' = [op |-> IF ParamsReadable(pl) THEN "set_parameters"
                                                    ELSE "IndexError",
                       before |-> opti, pl |-> pl]
    /\ nCtrlOps' = nCtrlOps + 1
    /\ UNCHANGED oracle
    /\ DirectFrame

CtrlSolve ==
    /\ DirectUse /\ opti.built
    /\ \E warm \in BOOLEAN, ans \in SolverAnswers(opti.value) :
         /\ Ask(SolverKey(opti), ans)
         /\ opti' = SolveMpc(opti, warm, ans).opti
         /\ lastOp' = [op |-> IF SolveMpc(opti, warm, ans).raised
                                 THEN "SolverError" ELSE "solve_mpc",
                       before |-> opti, warm |-> warm,
                       ans |-> ans, ret |-> SolveMpc(opti, warm, ans)]
    /\ nCtrlOps' = nCtrlOps + 1
    /\ DirectFrame

\* ------------------------------------------------------------- Simulation
\* load_prob_info(prob_info) with the noise keys vk (v_*) and wk (w_*)
LoadProbInfo ==
    /\ pc = "idle" /\ nLoads < MaxLoads /\ nCtrlOps = 0 /\ nRuns = 0
    /\ \E vk \in NoiseKeys, wk \in NoiseKeys :
         /\ prob_info' = Some([v |-> vk, w |-> wk])
         /\ attr' = LoadAttr(attr, vk, wk, experiment.rand_seed)
    /\ nLoads' = nLoads + 1
    /\ UNCHANGED <<experiment, ctl, pc, args, locals, outcome, returned, log,
                   nRuns, nCtrlOps>>

\* A later call in the same behaviour repeats the arguments of the first.
SameExperiment(a) == nRuns = 0 \/ a = args

\* run_closed_loop, entry: the two precondition checks (prob_info carries
\* 'Wset' and 'Np', so the reads that follow them succeed)
PreconditionNoTypeCheck(a) == IF ~IsSet(prob_info) THEN "NotLoaded" ELSE "ok"
Precondition(a) ==
    IF ~IsSet(prob_info) THEN "NotLoaded"
    ELSE IF a.c \notin {"mpc", "dnn"} THEN "UnsupportedController"
    ELSE "ok"
RunClosedLoop ==
    /\ pc = "idle" /\ nRuns < MaxRuns /\ nCtrlOps = 0
    /\ \E a \in RunArgs :
         /\ SameExperiment(a)
         /\ args' = a
         /\ IF Precondition(a) = "ok"
               THEN pc' = "noise" /\ outcome' = "running" /\ UNCHANGED locals
               ELSE Raise(Precondition(a))
    /\ nRuns' = nRuns + 1
    /\ log' = <<>>
    /\ UNCHANGED <<config, ctl, returned, nLoads, nCtrlOps>>

\* run_closed_loop: the generator and the two noise trajectories
NoiseError(a) ==
    IF NoiseMode(a.v_noise_generation) = "AttributeError" THEN "AttributeError"
    ELSE IF NoiseMode(a.v_noise_generation) = "unknown" THEN "UnknownNoise"
    ELSE IF ~VsimOk(a) THEN "AttributeError"
    ELSE IF NoiseMode(a.w_noise_generation) = "AttributeError" THEN "AttributeError"
    ELSE IF NoiseMode(a.w_noise_generation) = "unknown" THEN "UnknownNoise"
    ELSE IF ~WsimOk(a) THEN "AttributeError"
    ELSE "ok"
DrawNoise ==
    /\ pc = "noise"
    /\ IF NoiseError(attr) = "ok"
          THEN /\ LET seed == RngSeed(attr.rand_seed, args.rand_seed2, nRuns)
                  IN /\ Vsim' = DrawVsim(attr, seed)
                     /\ Wsim' = DrawWsim(attr, seed)
               /\ pc' = "init"
               /\ log' = Append(log, Ev("noise", 0))
               /\ UNCHANGED <<k, Xsim, Ysim, Usim, Xhat, Dhat, Jsim, ctime, Feas,
                              Yrefsim, CEMsim, CEM_stop_time, CEM_stop_trigger,
                              res, feas, Uopt, Jopt, outcome>>
          ELSE Raise(NoiseError(attr)) /\ UNCHANGED log
    /\ UNCHANGED <<config, ctl, args, returned, counts>>

\* run_closed_loop: if mpc_controller: c.reset_initial_guesses(), before the loop
NoResetBeforeLoop(mpc_controller, o) == o
ResetBeforeLoop(mpc_controller, o) ==
    IF mpc_controller THEN ResetInitialGuesses(o) ELSE o

\* run_closed_loop: containers, initial state, controller reset
Initialise ==
    /\ pc = "init"
    /\ IF args.c = "mpc" /\ ~opti.built
          THEN Raise("AttributeError") /\ UNCHANGED <<opti, lastOp, log>>
          ELSE /\ Xsim' = [Zeros(Nsim + 1) EXCEPT ![0] = x0]
               /\ Xhat' = [Zeros(Nsim + 1) EXCEPT ![0] = x0]
               /\ Ysim' = [Zeros(Nsim + 1) EXCEPT ![0] = hp(x0, Vsim[0])]
               /\ Usim' = Zeros(Nsim)
               /\ Dhat' = Zeros(Nsim + 1)
               /\ ctime' = Zeros(Nsim)
               /\ Jsim' = Zeros(Nsim)
               /\ Yrefsim' = Zeros(Nsim + 1)
               /\ Feas' = Zeros(Nsim)
               /\ CEMsim' = IF args.CEM THEN Zeros(Nsim + 1) ELSE <<>>
               /\ CEM_stop_time' = IF args.CEM THEN Some(Nsim + 1) ELSE Unset
               /\ CEM_stop_trigger' = FALSE
               /\ k' = 0
               /\ IF args.c = "mpc"
                     THEN /\ opti' = ResetBeforeLoop(args.c = "mpc", opti)
                          /\ lastOp' = [op |-> "reset_initial_guesses", before |-> opti]
                          /\ log' = Append(log, Ev("reset", 0))
                     ELSE UNCHANGED <<opti, lastOp, log>>
               /\ pc' = "step"
               /\ UNCHANGED <<Vsim, Wsim, res, feas, Uopt, Jopt, outcome>>
    /\ UNCHANGED <<config, oracle, args, returned, counts>>

\* loop body, MPC branch: reference, then set_parameters
SetParams ==
    /\ pc = "step" /\ args.c = "mpc"
    /\ LET pl == ParamsList(args.CEM, args.offset, args.multistage, Xhat[k],
                            myref(k), IF args.CEM THEN CEMsim[k] ELSE 0, Dhat[k])
       IN IF ParamsReadable(pl)
             THEN /\ Yrefsim' = [Yrefsim EXCEPT ![k] = myref(k)]
                  /\ opti' = SetParameters(opti, pl)
                  /\ lastOp' = [op |-> "set_parameters", before |-> opti,
                                pl |-> pl]
                  /\ log' = Append(log, Ev("set", k))
                  /\ pc' = "solve"
                  /\ UNCHANGED <<k, Vsim, Wsim, Xsim, Ysim, Usim, Xhat, Dhat, Jsim,
                                 ctime, Feas, CEMsim, CEM_stop_time,
                                 CEM_stop_trigger, res, feas, Uopt, Jopt, outcome>>
             ELSE Raise("IndexError") /\ UNCHANGED <<opti, lastOp, log>>
    /\ UNCHANGED <<config, oracle, args, returned, counts>>

\* loop body, MPC branch: solve_mpc and the reads of its result
Solve ==
    /\ pc = "solve"
    /\ \E ans \in SolverAnswers(opti.value) :
         LET r == SolveMpc(opti, experiment.warm_start, ans)
         IN /\ Ask(SolverKey(opti), ans)
            /\ opti' = r.opti
            /\ lastOp' = [op |-> IF r.raised THEN "SolverError" ELSE "solve_mpc",
                          before |-> opti,
                          warm |-> experiment.warm_start, ans |-> ans, ret |-> r]
            /\ log' = Append(log, [op |-> "solve", k |-> k, feas |-> r.feas,
                                   U |-> r.res.U, last |-> ans.it.U[0]])
            /\ IF r.raised
                  THEN Raise("SolverError")
                  ELSE IF args.multistage
                  THEN Raise("KeyError")
                  ELSE /\ res' = r.res
                       /\ feas' = Some(r.feas)
                       /\ Uopt' = r.res.U
                       /\ Jopt' = r.res.J
                       /\ pc' = "apply"
                       /\ UNCHANGED <<k, arrays, outcome>>
    /\ UNCHANGED <<config, args, returned, counts>>

\* loop body, approximate controller: reference, network, clamp
Evaluate ==
    /\ pc = "step" /\ args.c = "dnn"
    /\ Yrefsim' = [Yrefsim EXCEPT ![k] = myref(k)]
    /\ Jopt' = NaN
    /\ LET in_vec == IF args.CEM THEN <<Xhat[k], CEMsim[k]>>
                                 ELSE <<Xhat[k], myref(k)>>
       IN Uopt' = Clamp(NetOut(in_vec))
    /\ log' = Append(log, Ev("netca", k))
    /\ pc' = "apply"
    /\ UNCHANGED <<k, Vsim, Wsim, Xsim, Ysim, Usim, Xhat, Dhat, Jsim, ctime, Feas,
                   CEMsim, CEM_stop_time, CEM_stop_trigger, res, feas, outcome>>
    /\ UNCHANGED <<config, ctl, args, returned, counts>>

\* loop body from the computation time on: record, plant, CEM, estimate
CEMnext == CEMsim[k] + CEMadd(hp(fp(Xsim[k], Uopt, Wsim[k]), Vsim[k + 1]))
CEMexceedsNextRef == CEMnext > Yrefsim[k + 1]
CEMexceeds == CEMnext > Yrefsim[k]
Estimate(observer, u, xn, yn) ==
    IF observer THEN ObserverUpdate(u, yn) ELSE [xhat |-> xn, dhat |-> 0]
Apply ==
    /\ pc = "apply"
    /\ IF args.offset
          THEN Raise(IF args.c = "mpc" THEN "KeyError" ELSE "NameError")
               /\ UNCHANGED log
          ELSE LET xn == fp(Xsim[k], Uopt, Wsim[k])
                   yn == hp(xn, Vsim[k + 1])
                   stop == args.CEM /\ (CEM_stop_trigger \/ CEMexceeds)
                   est == Estimate(args.observer, Uopt, xn, yn)
               IN /\ ctime' = [ctime EXCEPT ![k] = 1]
                  /\ Usim' = [Usim EXCEPT ![k] = Uopt]
                  /\ Jsim' = [Jsim EXCEPT ![k] = Jopt]
                  /\ Xsim' = [Xsim EXCEPT ![k + 1] = xn]
                  /\ Ysim' = [Ysim EXCEPT ![k + 1] = yn]
                  /\ CEMsim' = IF args.CEM
                                  THEN [CEMsim EXCEPT ![k + 1] = CEMnext]
                                  ELSE CEMsim
                  /\ CEM_stop_time' =
                        IF args.CEM /\ ~CEM_stop_trigger /\ CEMexceeds
                            THEN Some(k + 1) ELSE CEM_stop_time
                  /\ CEM_stop_trigger' = stop
                  /\ IF stop
                        THEN UNCHANGED <<Xhat, Dhat>>
                        ELSE /\ Xhat' = [Xhat EXCEPT ![k + 1] = est.xhat]
                             /\ Dhat' = IF args.observer
                                           THEN [Dhat EXCEPT ![k + 1] = est.dhat]
                                           ELSE Dhat
                  /\ IF ~stop /\ k + 1 < Nsim
                        THEN k' = k + 1 /\ pc' = "step"
                        ELSE k' = k /\ pc' = "finish"
                  /\ log' = Append(log, Ev("plant", k))
                  /\ UNCHANGED <<Vsim, Wsim, Feas, Yrefsim, res, feas, Uopt, Jopt,
                                 outcome>>
    /\ UNCHANGED <<config, ctl, args, returned, counts>>

\* after the loop: last reference, the returned dictionary
Cut(a, n) == [i \in 0..(n - 1) |-> a[i]]
SimDataTruncated ==
    LET s == IF CEM_stop_trigger THEN k + 1 ELSE Nsim
    IN [Xsim |-> Cut(Xsim, s + 1), Ysim |-> Cut(Ysim, s + 1), Usim |-> Cut(Usim, s),
        Jsim |-> Cut(Jsim, s), Wsim |-> Cut(Wsim, s), Vsim |-> Cut(Vsim, s + 1),
        Yrefsim |-> Cut([Yrefsim EXCEPT ![k + 1] = myref(k + 1)], s + 1),
        ctime |-> Cut(ctime, s), Xhat |-> Cut(Xhat, s + 1), Dhat |-> Cut(Dhat, s + 1),
        feas |-> Cut(Feas, s),
        CEMsim |-> IF args.CEM THEN Cut(CEMsim, s + 1) ELSE CEMsim,
        CEM_stop_time |-> CEM_stop_time]
SimData ==
    [Xsim |-> Xsim, Ysim |-> Ysim, Usim |-> Usim, Jsim |-> Jsim, Wsim |-> Wsim,
     Vsim |-> Vsim, Yrefsim |-> [Yrefsim EXCEPT ![k + 1] = myref(k + 1)],
     ctime |-> ctime, Xhat |-> Xhat, Dhat |-> Dhat, feas |-> Feas,
     CEMsim |-> CEMsim, CEM_stop_time |-> CEM_stop_time]
Finish ==
    /\ pc = "finish"
    /\ sim_data' = Some([data |-> SimData, args |-> args, attr |-> attr,
                         log |-> log])
    /\ prev_data' = sim_data
    /\ pc' = "idle"
    /\ outcome' = "returned"
    /\ ClearLocals
    /\ UNCHANGED <<config, ctl, args, log, counts>>

Next ==
    \/ GetMpc
    \/ CtrlReset
    \/ CtrlSetParameters
    \/ CtrlSolve
    \/ LoadProbInfo
    \/ RunClosedLoop
    \/ DrawNoise
    \/ Initialise
    \/ SetParams
    \/ Solve
    \/ Evaluate
    \/ Apply
    \/ Finish

Spec == Init /\ [][Next]_vars

\* ---------------------------------------------------------------- claims
Events(l, op) == {i \in DOMAIN l : l[i].op = op}
EventsAt(l, op, step) == {i \in DOMAIN l : l[i].op = op /\ l[i].k = step}
Returned == outcome = "returned" /\ IsSet(sim_data)
Trace == Val(sim_data).data
TraceLog == Val(sim_data).log
TraceArgs == Val(sim_data).args
\* the steps whose plant update was carried out in the returned run
StepsDone == Cardinality(Events(TraceLog, "plant"))

\* C1: whenever solve_mpc returns feasibility false, the first input it
\* returns lies within [u_min, u_max], whatever the solver's last iterate was.
C1_ClampedOnFailure ==
    (lastOp.op = "solve_mpc" /\ ~lastOp.ret.feas)
        => (u_min <= lastOp.ret.res.U /\ lastOp.ret.res.U <= u_max)
C1_Witness ==
    /\ lastOp.op = "solve_mpc" /\ ~lastOp.ret.feas
    /\ lastOp.ans.it.U[0] > u_max
    /\ lastOp.ret.res.U = u_max

\* C2: a solver failure never leaves solve_mpc as an exception and is never
\* retried: every step has at most one solve, every plant update of an MPC run
\* directly follows the one set_parameters and the one solve of its step and
\* applies the input that solve returned, and a returned run carried out all
\* Nsim steps unless the CEM stop fired.  A run is cut short inside the loop
\* only by the flag handling (a parameter list or result key the EconomicMPC
\* does not have), never by what the solver answered.
LoopErrors == {"IndexError", "KeyError", "NameError"}
C2_FailureAbsorbed ==
    /\ outcome # "SolverError" /\ lastOp.op # "SolverError"
    /\ outcome \in LoopErrors => (~args.CEM \/ args.offset \/ args.multistage)
    /\ \A step \in 0..(Nsim - 1) :
          Cardinality(EventsAt(log, "solve", step)) <= 1
    /\ \A i \in DOMAIN log :
          (log[i].op = "plant" /\ args.c = "mpc")
              => /\ i >= 3
                 /\ log[i - 1].op = "solve" /\ log[i - 1].k = log[i].k
                 /\ log[i - 2].op = "set" /\ log[i - 2].k = log[i].k
    /\ (Returned /\ TraceArgs.c = "mpc")
          => /\ \A i \in Events(TraceLog, "solve") :
                   Trace.Usim[TraceLog[i].k] = TraceLog[i].U
             /\ \/ StepsDone = Nsim
                \/ TraceArgs.CEM /\ Trace.CEM_stop_time = Some(StepsDone)
C2_Witness ==
    /\ Returned /\ TraceArgs.c = "mpc"
    /\ \E i \in Events(TraceLog, "solve") :
          /\ ~TraceLog[i].feas /\ TraceLog[i].k = 0
          /\ TraceLog[i].last < u_min /\ Trace.Usim[0] = u_min
    /\ StepsDone = Nsim /\ Nsim > 1

\* C3: the returned trace records the feasibility of each step: feas[k] is 1
\* when the solve of step k was feasible and 0 when it was not.
C3_FeasRecorded ==
    (Returned /\ TraceArgs.c = "mpc")
        => \A i \in Events(TraceLog, "solve") :
              Trace.feas[TraceLog[i].k] = (IF TraceLog[i].feas THEN 1 ELSE 0)

\* C4: with CEM tracking the returned trace accumulates CEMsim[j+1] =
\* CEMsim[j] + CEMadd(Ysim[j+1]); the loop ends at the first step whose
\* cumulative value exceeds that step's reference, nothing is set, solved or
\* stepped after it, and CEM_stop_time is the index of that first exceeding
\* cumulative value; without an exceeding value all Nsim steps run.
Stopped == Trace.CEM_stop_time # Some(Nsim + 1)
C4_CEMStop ==
    /\ CEM_stop_trigger => pc = "finish"
    /\ (Returned /\ TraceArgs.CEM)
          => /\ \A j \in 0..(StepsDone - 1) :
                   Trace.CEMsim[j + 1] = Trace.CEMsim[j] + CEMadd(Trace.Ysim[j + 1])
             /\ \A j \in 1..(StepsDone - 1) :
                   Trace.CEMsim[j] <= Trace.Yrefsim[j - 1]
             /\ Stopped
                   => /\ Trace.CEM_stop_time = Some(StepsDone)
                      /\ Trace.CEMsim[StepsDone] > Trace.Yrefsim[StepsDone - 1]
             /\ ~Stopped
                   => /\ StepsDone = Nsim
                      /\ Trace.CEMsim[Nsim] <= Trace.Yrefsim[Nsim - 1]
             /\ TraceLog[Len(TraceLog)] = Ev("plant", StepsDone - 1)
             /\ Cardinality(Events(TraceLog, "set")) + Cardinality(Events(TraceLog, "netca"))
                   = StepsDone
             /\ TraceArgs.c = "mpc"
                   => Cardinality(Events(TraceLog, "solve")) = StepsDone
C4_Witness ==
    /\ Returned /\ TraceArgs.CEM /\ TraceArgs.c = "mpc"
    /\ Trace.CEM_stop_time = Some(1) /\ StepsDone = 1 /\ Nsim > 1
    /\ Trace.CEMsim[1] > Trace.Yrefsim[0]

\* C5 as claimed: every array of the returned trace has Nsim (per step) or
\* Nsim+1 (per instant) entries when all steps ran, and the trace is cut at
\* the CEM stopping index s (s+1 instants, indices 0..s) after an early stop.
EarlyStop == TraceArgs.CEM /\ Stopped /\ Val(Trace.CEM_stop_time) < Nsim
PerStep == {"Usim", "Jsim", "ctime", "feas", "Wsim"}
PerInstant == {"Xsim", "Ysim", "Xhat", "Dhat", "Vsim", "Yrefsim"}
C5_TraceTruncated ==
    Returned
        => IF EarlyStop
              THEN \A f \in PerInstant :
                      Size(Trace[f]) = Val(Trace.CEM_stop_time) + 1
              ELSE /\ \A f \in PerStep : Size(Trace[f]) = Nsim
                   /\ \A f \in PerInstant : Size(Trace[f]) = Nsim + 1
\* C5 amended: the arrays of every returned trace have Nsim (per step) or
\* Nsim+1 (per instant) entries, also after an early stop; the plant state,
\* output and input entries past the stopping index keep their initial zero.
C5_TraceFullSize ==
    Returned
        => /\ \A f \in PerStep : DOMAIN Trace[f] = 0..(Nsim - 1)
           /\ \A f \in PerInstant : DOMAIN Trace[f] = 0..Nsim
           /\ \A i \in (StepsDone + 1)..Nsim :
                 Trace.Xsim[i] = 0 /\ Trace.Ysim[i] = 0 /\ Trace.Usim[i - 1] = 0
C5_Witness ==
    /\ Returned /\ EarlyStop
    /\ StepsDone = Val(Trace.CEM_stop_time)
    /\ Size(Trace.Xsim) = Nsim + 1 /\ Size(Trace.Xsim) > StepsDone + 1

\* C6: without an observer the estimated state equals the plant state at
\* every index up to the last plant state computed, early stops included.
C6_XhatEqualsXsim ==
    (Returned /\ ~TraceArgs.observer)
        => \A i \in 0..StepsDone : Trace.Xhat[i] = Trace.Xsim[i]

\* C7: after load_prob_info each noise channel has the generation mode its
\* own keys select (normal for mu/sigma, uniform for min/max, uniform over
\* [0, 0] when missing) with the parameters of its own keys.
Selected(keys) == IF keys = "normal" THEN "normal" ELSE "uniform"
C7_NoiseModesLoaded ==
    IsSet(prob_info)
        => LET keys == Val(prob_info)
           IN /\ NoiseMode(attr.v_noise_generation) = Selected(keys.v)
              /\ NoiseMode(attr.w_noise_generation) = Selected(keys.w)
              /\ keys.v = "normal"
                    => attr.v_mu = Some(v_mu_cfg) /\ attr.v_sigma = Some(v_sigma_cfg)
              /\ keys.w = "normal"
                    => attr.w_mu = Some(w_mu_cfg) /\ attr.w_sigma = Some(w_sigma_cfg)
              /\ keys.v = "uniform"
                    => attr.v_min = Some(v_min_cfg) /\ attr.v_max = Some(v_max_cfg)
              /\ keys.w = "uniform"
                    => attr.w_min = Some(w_min_cfg) /\ attr.w_max = Some(w_max_cfg)
              /\ keys.v = "none" => attr.v_min = Some(0) /\ attr.v_max = Some(0)
              /\ keys.w = "none" => attr.w_min = Some(0) /\ attr.w_max = Some(0)

\* C8: a call made before problem data is loaded, or with a controller that
\* is neither an MPC nor an approximate controller, raises before any noise
\* is drawn and before any controller operation or plant step; only calls
\* that pass both checks get any further.
PreconditionErrors == {"NotLoaded", "UnsupportedController"}
C8_FailsBeforeStart ==
    /\ outcome \in PreconditionErrors
          => pc = "idle" /\ log = <<>> /\ Xsim = <<>> /\ Vsim = <<>>
    /\ (pc # "idle" \/ outcome \notin (PreconditionErrors \cup {"none"}))
          => IsSet(prob_info) /\ args.c \in {"mpc", "dnn"}
C8_Witness ==
    /\ outcome = "UnsupportedController" /\ IsSet(prob_info)
    /\ opti.built /\ lastOp.op = "get_mpc"

\* C9: the noise trajectories are those of the generator seeded with
\* rand_seed + rand_seed2 and drawn before anything else; two returned runs
\* with the same seed, seed offset and arguments have the same noise and the
\* same state, output and input trajectories.
C9_Reproducible ==
    /\ (Returned /\ IsSet(Val(sim_data).attr.rand_seed))
          => LET a == Val(sim_data).attr
                 seed == Val(a.rand_seed) + TraceArgs.rand_seed2
             IN /\ Trace.Vsim = DrawVsim(a, seed)
                /\ Trace.Wsim = DrawWsim(a, seed)
                /\ TraceLog[1] = Ev("noise", 0)
    /\ (IsSet(sim_data) /\ IsSet(prev_data))
          => LET a == Val(sim_data)
                 b == Val(prev_data)
             IN (a.args = b.args /\ a.attr = b.attr /\ IsSet(a.attr.rand_seed))
                   => /\ a.data.Vsim = b.data.Vsim /\ a.data.Wsim = b.data.Wsim
                      /\ a.data.Xsim = b.data.Xsim /\ a.data.Ysim = b.data.Ysim
                      /\ a.data.Usim = b.data.Usim
C9_Witness ==
    /\ IsSet(sim_data) /\ IsSet(prev_data)
    /\ Val(sim_data).args = Val(prev_data).args
    /\ IsSet(Val(sim_data).attr.rand_seed)
    /\ TraceArgs.c = "mpc"
    /\ \E i \in DOMAIN Trace.Vsim : Trace.Vsim[i] # 0
    /\ \E i \in DOMAIN Trace.Wsim : Trace.Wsim[i] # 0
    /\ \E i \in Events(TraceLog, "solve") : ~TraceLog[i].feas
    /\ Trace.Xsim = Val(prev_data).data.Xsim

\* C10: right after reset_initial_guesses the initial guess of every decision
\* variable (U[0..Np-1], X[1..Np], Y[0..Np]) is the one get_mpc gave it,
\* whatever solves and parameter updates came before.
C10_ResetRestoresGuesses ==
    lastOp.op = "reset_initial_guesses" => opti.initial = BuildOpti.initial
C10_Witness ==
    /\ lastOp.op = "reset_initial_guesses"
    /\ \A j \in 0..(Np - 1) : lastOp.before.initial.U[j] # u_init
                                /\ lastOp.before.initial.X[j] # x_init
    /\ lastOp.before.value # BuildOpti.value
    /\ opti.initial = BuildOpti.initial

\* C11: once get_mpc has built the problem, set_parameters, solve_mpc and
\* reset_initial_guesses keep its topology: the variable groups keep their
\* lengths (U: Np, X: Np, Y: Np+1), the constraint set and the objective stay
\* those of get_mpc; set_parameters sets X0, CEMref and CEM0 to positions 0, 1
\* and 2 of its argument and leaves every initial guess as it was, and a call
\* whose list is too short changes nothing.
Topology(o) == [U |-> DOMAIN o.initial.U, X |-> DOMAIN o.initial.X,
                Y |-> DOMAIN o.initial.Y, constraints |-> o.constraints,
                objective |-> o.objective]
ControllerOps == {"set_parameters", "solve_mpc", "reset_initial_guesses",
                  "IndexError"}
C11_TopologyFixed ==
    /\ opti.built
          => /\ Size(opti.initial.U) = Np /\ Size(opti.initial.X) = Np
             /\ Size(opti.initial.Y) = Np + 1
             /\ Topology(opti) = Topology(BuildOpti)
    /\ lastOp.op \in ControllerOps
          => lastOp.before.built /\ Topology(opti) = Topology(lastOp.before)
    /\ lastOp.op = "set_parameters"
          => /\ opti.initial = lastOp.before.initial
             /\ opti.value = [X0 |-> lastOp.pl[1], CEMref |-> lastOp.pl[2],
                              CEM0 |-> lastOp.pl[3]]
    /\ lastOp.op = "IndexError" => opti = lastOp.before
C11_Witness ==
    /\ lastOp.op = "set_parameters"
    /\ lastOp.before.initial # BuildOpti.initial
    /\ opti.value # lastOp.before.value
    /\ opti.initial = lastOp.before.initial
    /\ Topology(opti) = Topology(BuildOpti)

\* C12: a run with an MPC controller calls reset_initial_guesses at most once,
\* and exactly once as soon as it has drawn its noise and set up its
\* containers: the reset is the first controller operation of the run, right
\* after the noise draw, before every set_parameters and solve_mpc, and none
\* follows inside the loop; the first solve of every run starts from the
\* initial guesses of get_mpc, whatever an earlier run left behind.
InLoop == pc \in {"step", "solve", "apply", "finish"}
C12_ResetOncePerRun ==
    args.c = "mpc"
        => /\ Cardinality(Events(log, "reset")) <= 1
           /\ (InLoop \/ Events(log, "set") # {} \/ Events(log, "solve") # {})
                 => /\ Events(log, "reset") = {2}
                    /\ log[1] = Ev("noise", 0)
           /\ (lastOp.op = "solve_mpc" /\ Cardinality(Events(log, "solve")) = 1)
                 => /\ lastOp.before.initial = BuildOpti.initial
                    /\ lastOp.before.value =
                          [X0 |-> x0, CEMref |-> myref(0), CEM0 |-> 0]
C12_Witness ==
    /\ args.c = "mpc" /\ nRuns = 2 /\ experiment.warm_start
    /\ IsSet(sim_data)
    /\ LET last == Len(TraceLog) - 1
       IN TraceLog[last].op = "solve" /\ TraceLog[last].feas
    /\ lastOp.op = "solve_mpc" /\ Cardinality(Events(log, "solve")) = 1
    /\ Events(log, "reset") = {2}
    /\ lastOp.before.initial = BuildOpti.initial

\* C13: solve_mpc never changes a parameter value; it changes the initial
\* guesses only when the solve succeeded and warm_start is true, and then
\* they become the solution's values of U, X and Y; with warm_start false, or
\* after a failed solve, the guesses are those from before the call, not the
\* solver's last iterate.
C13_WarmStartOnlyOnSuccess ==
    lastOp.op = "solve_mpc"
        => /\ opti.value = lastOp.before.value
           /\ Topology(opti) = Topology(lastOp.before)
           /\ (lastOp.ans.ok /\ lastOp.warm)
                 => opti.initial = [U |-> lastOp.ans.it.U, X |-> lastOp.ans.it.X,
                                    Y |-> lastOp.ans.it.Y]
           /\ (~lastOp.ans.ok \/ ~lastOp.warm)
                 => opti.initial = lastOp.before.initial
C13_Witness ==
    /\ lastOp.op = "solve_mpc" /\ lastOp.warm /\ ~lastOp.ans.ok
    /\ lastOp.before.initial # BuildOpti.initial
    /\ lastOp.ans.it.U # lastOp.before.initial.U
    /\ opti.initial = lastOp.before.initial
    /\ opti.value = lastOp.before.value /\ opti.value # BuildOpti.value

\* C14: for every combination of the CEM, offset and multistage flags the
\* list run_closed_loop hands to an EconomicMPC at step k has an entry at
\* every position set_parameters reads, so no call fails on its list; when
\* the step's solve is due X0 holds Xhat[k], CEMref holds Yrefsim[k] and CEM0
\* holds the cumulative value CEMsim[k] and no other quantity; and every
\* solve_mpc directly follows the set_parameters of its step.
C14_ParamsMatchPositions ==
    /\ outcome # "IndexError"
    /\ (pc = "solve" /\ args.c = "mpc")
          => /\ lastOp.op = "set_parameters"
             /\ opti.value.X0 = Xhat[k]
             /\ opti.value.CEMref = Yrefsim[k]
             /\ args.CEM
             /\ opti.value.CEM0 = CEMsim[k]
    /\ \A i \in Events(log, "solve") :
          i > 1 /\ log[i - 1] = Ev("set", log[i].k)

====
